---- MODULE Spec2Model ----
(***************************************************************************)
(* jass-api-search: a VS Code command that fetches JASS declaration files, *)
(* extracts the documented natives with a regular expression, shows them   *)
(* in a QuickPick filtered through Fuse, and renders the selected entry.   *)
(*                                                                         *)
(* Text is modelled as a sequence of lexical tokens.  A token stands for   *)
(* the characters it is written with: OPEN is the three characters of a    *)
(* doc-comment opener, CLOSE the two of a comment closer, NL a line break, *)
(* SP a blank, and every other token either a run of \w characters (a      *)
(* word) or a single punctuation character.  Adjacent word tokens form one *)
(* \w+ run, exactly as adjacent letters do.  The regular expressions of    *)
(* the source are evaluated over these tokens in the order a backtracking  *)
(* engine tries the alternatives (lazy: shortest first, greedy: longest    *)
(* first).                                                                 *)
(***************************************************************************)
EXTENDS Integers, Sequences, FiniteSets, TLC

OPEN  == "/**"
CLOSE == "*/"
NL    == "\n"
SP    == " "
AT    == "@"

\* \s
IsWs(t) == t \in {SP, NL}

\* \w: the keywords are ordinary words to the regular expressions
Words == {"native", "takes", "returns", "nothing", "doc", "F", "G", "w",
          "a", "b", "p", "q", "integer", "boolean", "constant"}

IsWord(t) == t \in Words

Min(S) == CHOOSE x \in S : \A y \in S : x <= y

----------------------------------------------------------------------------
(* Regular-expression primitives over a token sequence s, by position.     *)

RECURSIVE WsEnd(_, _)
\* \s* (greedy) from position i: the position after the whitespace run
WsEnd(s, i) ==
    IF i <= Len(s) /\ IsWs(s[i]) THEN WsEnd(s, i + 1) ELSE i

RECURSIVE WordEnd(_, _)
\* \w* (greedy) from position i: the position after the word run
WordEnd(s, i) ==
    IF i <= Len(s) /\ IsWord(s[i]) THEN WordEnd(s, i + 1) ELSE i

\* the literal keyword kw at position i
Lit(s, i, kw) == i >= 1 /\ i <= Len(s) /\ s[i] = kw

\* \s+returns\s+(\w+) at position p; 0 when it does not match, else the
\* record of the return type's span and the end of the match
RetAt(s, p) ==
    LET r  == WsEnd(s, p)
        r2 == WsEnd(s, r + 1)
        e  == WordEnd(s, r2)
    IN  IF r > p /\ Lit(s, r, "returns") /\ r2 > r + 1 /\ e > r2
        THEN [retFrom |-> r2, end |-> e]
        ELSE [retFrom |-> 0, end |-> 0]

RECURSIVE FirstRet(_, _)
\* ([\s\S]*?) followed by \s+returns\s+(\w+): the lazy group grows from
\* position k one token at a time; the first p >= k where the rest matches
FirstRet(s, k) ==
    IF k > Len(s) THEN 0
    ELSE IF RetAt(s, k).end # 0 THEN k
    ELSE FirstRet(s, k + 1)

RECURSIVE ParamsSearch(_, _, _)
\* takes\s+([\s\S]*?)\s+returns...: t is the position after `takes`, k the
\* position the greedy \s+ has currently reached; \s+ gives back one blank
\* at a time after the lazy group has been tried to the end of the text
ParamsSearch(s, t, k) ==
    IF k <= t THEN [parFrom |-> 0, parTo |-> 0]
    ELSE LET p == FirstRet(s, k)
         IN  IF p # 0 THEN [parFrom |-> k, parTo |-> p]
             ELSE ParamsSearch(s, t, k - 1)

NoMatch == [start |-> 0, close |-> 0, nameFrom |-> 0, nameTo |-> 0,
            parFrom |-> 0, parTo |-> 0, retFrom |-> 0, end |-> 0]

\* \*\/\s*\nnative\s+(\w+)\s+takes\s+([\s\S]*?)\s+returns\s+(\w+) with the
\* comment closer at position c
DeclMatch(s, i, c) ==
    LET w  == WsEnd(s, c + 1)
        a  == WsEnd(s, w + 1)
        n2 == WordEnd(s, a)
        b  == WsEnd(s, n2)
        t2 == WsEnd(s, b + 1)
        ps == ParamsSearch(s, b + 1, t2)
        rt == RetAt(s, ps.parTo)
    IN  IF /\ Lit(s, c, CLOSE)
           /\ w > c + 1 /\ s[w - 1] = NL
           /\ Lit(s, w, "native")
           /\ a > w + 1
           /\ n2 > a
           /\ b > n2
           /\ Lit(s, b, "takes")
           /\ t2 > b + 1
           /\ ps.parTo # 0
        THEN [start |-> i, close |-> c, nameFrom |-> a, nameTo |-> n2,
              parFrom |-> ps.parFrom, parTo |-> ps.parTo,
              retFrom |-> rt.retFrom, end |-> rt.end]
        ELSE NoMatch

RECURSIVE CommentSearch(_, _, _)
\* \/\*\*[\s\S]*?\*\/...: the lazy comment body grows until a closer is
\* found that the rest of the pattern matches after
CommentSearch(s, i, c) ==
    IF c > Len(s) THEN NoMatch
    ELSE LET m == DeclMatch(s, i, c)
         IN  IF m.end # 0 THEN m ELSE CommentSearch(s, i, c + 1)

\* one attempt of the pattern at start position i
MatchAt(s, i) ==
    IF Lit(s, i, OPEN) THEN CommentSearch(s, i, i + 1) ELSE NoMatch

RECURSIVE NextStart(_, _)
\* the engine tries the start positions from lastIndex on, left to right:
\* the first position the pattern matches at, 0 when there is none
NextStart(s, i) ==
    IF i > Len(s) THEN 0
    ELSE IF MatchAt(s, i).end # 0 THEN i
    ELSE NextStart(s, i + 1)

RECURSIVE MatchRange(_, _, _)
\* String.prototype.match with the g flag: the leftmost match from
\* lastIndex, then again from the end of that match.  MatchRange gives the
\* first n of these matches from position i on; it is evaluated by halving
\* n so that the depth of the evaluation stays logarithmic in the number
\* of matches
MatchRange(s, i, n) ==
    IF n = 0 THEN <<>>
    ELSE IF n = 1
    THEN LET j == NextStart(s, i)
         IN  IF j = 0 THEN <<>> ELSE <<MatchAt(s, j)>>
    ELSE LET h    == n \div 2
             left == MatchRange(s, i, h)
         IN  IF Len(left) < h THEN left
             ELSE left \o MatchRange(s, left[h].end, n - h)

----------------------------------------------------------------------------
(* parseApiDocumentation: the field extraction on one matched block.       *)

RECURSIVE Join(_)
\* texts.join("\n")
Join(texts) ==
    IF Len(texts) = 0 THEN <<>>
    ELSE IF Len(texts) = 1 THEN texts[1]
    ELSE texts[1] \o <<NL>> \o Join(Tail(texts))

RECURSIVE TrimLeft(_)
TrimLeft(s) ==
    IF Len(s) > 0 /\ IsWs(s[1]) THEN TrimLeft(Tail(s)) ELSE s

RECURSIVE TrimRight(_)
TrimRight(s) ==
    IF Len(s) > 0 /\ IsWs(s[Len(s)])
    THEN TrimRight(SubSeq(s, 1, Len(s) - 1)) ELSE s

\* String.prototype.trim
Trim(s) == TrimRight(TrimLeft(s))

RECURSIVE FirstNative(_, _)
\* match.match(/native\s+(\w+)/)?.[1]: the leftmost `native` that blanks
\* and a word follow; <<>> when there is none
FirstNative(mt, j) ==
    IF j > Len(mt) THEN <<>>
    ELSE LET a == WsEnd(mt, j + 1)
             e == WordEnd(mt, a)
         IN  IF Lit(mt, j, "native") /\ a > j + 1 /\ e > a
             THEN SubSeq(mt, a, e - 1)
             ELSE FirstNative(mt, j + 1)

RECURSIVE FirstReturns(_, _)
\* match.match(/returns\s+(\w+)/)?.[1]
FirstReturns(mt, j) ==
    IF j > Len(mt) THEN <<>>
    ELSE LET a == WsEnd(mt, j + 1)
             e == WordEnd(mt, a)
         IN  IF Lit(mt, j, "returns") /\ a > j + 1 /\ e > a
             THEN SubSeq(mt, a, e - 1)
             ELSE FirstReturns(mt, j + 1)

\* \s+returns at position p
RetKwAt(s, p) ==
    LET r == WsEnd(s, p) IN r > p /\ Lit(s, r, "returns")

RECURSIVE FirstRetKw(_, _)
FirstRetKw(s, k) ==
    IF k > Len(s) THEN 0
    ELSE IF RetKwAt(s, k) THEN k
    ELSE FirstRetKw(s, k + 1)

RECURSIVE TakesSearch(_, _, _)
\* \s+([\s\S]*?)\s+returns after a `takes`: as ParamsSearch
TakesSearch(s, t, k) ==
    IF k <= t THEN [parFrom |-> 0, parTo |-> 0]
    ELSE LET p == FirstRetKw(s, k)
         IN  IF p # 0 THEN [parFrom |-> k, parTo |-> p]
             ELSE TakesSearch(s, t, k - 1)

RECURSIVE FirstTakes(_, _)
\* match.match(/takes\s+([\s\S]*?)\s+returns/)?.[1]; the flag found tells
\* a missing match (undefined) from an empty capture
FirstTakes(mt, j) ==
    IF j > Len(mt) THEN [found |-> FALSE, text |-> <<>>]
    ELSE LET t2 == WsEnd(mt, j + 1)
             ps == TakesSearch(mt, j + 1, t2)
         IN  IF Lit(mt, j, "takes") /\ t2 > j + 1 /\ ps.parTo # 0
             THEN [found |-> TRUE,
                   text |-> SubSeq(mt, ps.parFrom, ps.parTo - 1)]
             ELSE FirstTakes(mt, j + 1)

\* x || fallback on strings: the empty string is falsy
OrElse(x, fallback) == IF x = <<>> THEN fallback ELSE x

\* `${name}(${parameters}): ${returnType}`
Signature(name, parameters, returnType) ==
    name \o <<"(">> \o parameters \o <<"): ">> \o returnType

\* the callback of matches.map
EntryOf(match) ==
    LET name       == OrElse(FirstNative(match, 1), <<"Unknown Function">>)
        parameters == OrElse(Trim(FirstTakes(match, 1).text), <<"nothing">>)
        returnType == OrElse(FirstReturns(match, 1), <<"nothing">>)
    IN  [name |-> name,
         signature |-> Signature(name, parameters, returnType),
         description |-> match]

\* combinedText.match(/.../g), as the matched spans
Matches(combinedText) == MatchRange(combinedText, 1, Len(combinedText))

MatchText(s, m) == SubSeq(s, m.start, m.end - 1)

parseApiDocumentation(texts) ==
    LET combinedText == Join(texts)
        matches      == Matches(combinedText)
    IN  [k \in 1..Len(matches) |-> EntryOf(MatchText(combinedText, matches[k]))]

----------------------------------------------------------------------------
(* showFunctionDetails: the markup of the detail panel.                    *)

FuncNameOpen   == "<span class=\"func-name\">"
TypeOpen       == "<span class=\"type\">"
AnnotationOpen == "<span class=\"annotation\">"
SpanClose      == "</span>"

Types == {"integer", "real", "boolean", "string", "unit", "player", "force",
          "nothing"}

RECURSIVE Split(_, _)
\* String.prototype.split(sep): the pieces between the separators
Split(s, sep) ==
    IF \A k \in 1..Len(s) : s[k] # sep THEN <<s>>
    ELSE LET k == Min({j \in 1..Len(s) : s[j] = sep})
         IN  <<SubSeq(s, 1, k - 1)>> \o Split(SubSeq(s, k + 1, Len(s)), sep)

\* line.startsWith(prefix), the prefix one token
StartsWith(line, prefix) == Len(line) > 0 /\ line[1] = prefix

\* the predicate of highlightedDescription's filter
KeepLine(line) == ~StartsWith(line, OPEN) /\ ~StartsWith(line, CLOSE)

RECURSIVE Annotate(_)
\* line.replace(/(@\w+)/g, `<span class="annotation">$1</span>`)
Annotate(line) ==
    IF Len(line) = 0 THEN <<>>
    ELSE LET e == WordEnd(line, 2)
         IN  IF line[1] = AT /\ e > 2
             THEN <<AnnotationOpen>> \o SubSeq(line, 1, e - 1)
                  \o <<SpanClose>> \o Annotate(SubSeq(line, e, Len(line)))
             ELSE <<line[1]>> \o Annotate(Tail(line))

\* func.description.split("\n").map(...).filter(...).map(...).join("\n")
highlightedDescription(description) ==
    LET lines    == Split(description, NL)
        stripped == [k \in 1..Len(lines) |-> TrimRight(lines[k])]
        kept     == SelectSeq(stripped, KeepLine)
    IN  Join([k \in 1..Len(kept) |-> Annotate(kept[k])])

\* .replace(/^(\w+)\(/, `<span class="func-name">$1</span>(`)
ColorName(sig) ==
    LET e == WordEnd(sig, 1)
    IN  IF e > 1 /\ Lit(sig, e, "(")
        THEN <<FuncNameOpen>> \o SubSeq(sig, 1, e - 1) \o <<SpanClose>>
             \o SubSeq(sig, e, Len(sig))
        ELSE sig

\* \b(integer|real|...)\b at position k: a type keyword that is a whole word
IsTypeAt(sig, k) ==
    /\ sig[k] \in Types
    /\ (k = 1 \/ ~IsWord(sig[k - 1]))
    /\ (k = Len(sig) \/ ~IsWord(sig[k + 1]))

RECURSIVE ColorTypesFrom(_, _)
\* .replace(/\b(integer|...|nothing)\b/g, `<span class="type">$1</span>`)
ColorTypesFrom(sig, k) ==
    IF k > Len(sig) THEN <<>>
    ELSE (IF IsTypeAt(sig, k) THEN <<TypeOpen, sig[k], SpanClose>>
          ELSE <<sig[k]>>) \o ColorTypesFrom(sig, k + 1)

highlightedSignature(signature) == ColorTypesFrom(ColorName(signature), 1)

\* the webview panel showFunctionDetails creates for func
showFunctionDetails(func) ==
    [title       |-> func.name,
     code        |-> highlightedSignature(func.signature),
     description |-> highlightedDescription(func.description)]

----------------------------------------------------------------------------
(* The documents a source URL can answer with, and the other inputs.       *)

\* the blocks of the large document: three of them exceed what is displayed
BigBlocks == 67

\* the longest query the user types
MaxQueryLen == 2

\* GITHUB_FILES holds three URLs
NumUrls == 3

\* rows.slice(0, 200)
DisplayLimit == 200

Urls == 1..NumUrls

Block(name, params, ret) ==
    <<OPEN, "doc", CLOSE, NL, "native", SP, name, SP, "takes", SP>>
    \o params \o <<SP, "returns", SP, ret, NL>>

\* a comment that no native declaration follows
DocNone == <<OPEN, SP, "doc", SP, CLOSE, NL>>

\* F declared twice, with two signatures, and a G
DocDup == Block("F", <<"integer", SP, "a">>, "boolean")
          \o Block("F", <<"nothing">>, "nothing")
          \o Block("G", <<"a">>, "b")

\* n copies of s
Repeat(s, n) == [k \in 1..(n * Len(s)) |-> s[((k - 1) % Len(s)) + 1]]

DocBig == Repeat(Block("w", <<"p">>, "q"), BigBlocks)

Docs == {DocNone, DocDup, DocBig}

\* String(err) of a rejected request
Errors == {<<"AxiosError: Network Error">>,
           <<"AxiosError: Request failed with status code 404">>}

QueryChars == {SP, "F"}

Queries == UNION {[1..n -> QueryChars] : n \in 0..MaxQueryLen}

----------------------------------------------------------------------------
(* One invocation of the command: fuzzySearch and the QuickPick it owns.   *)

VARIABLES
    pc,          \* where fuzzySearch is: idle, import, fetch, returned
    fetch,       \* the request of each URL: status and body or error
    responses,   \* the values Promise.all has collected, by index
    outcome,     \* how the try block ended: none, failed, empty, ready
    apiData,     \* the extracted entries
    fuse,        \* the Fuse index over apiData: none or built
    listening,   \* the three qp.onDid... handlers are registered
    qpVisible, qpDisposed, qpBusy, qpItems, qpValue,
    handled,     \* the last run of the value handler: its branch, and
                 \* results.length when it searched
    picked,      \* the row the selection handler was given
    panels,      \* the webview panels created
    text, parsed,        \* the extractor on its own: input and result
    raw, rendered        \* the description display on its own

sessionVars == <<pc, fetch, responses, outcome, apiData, fuse, listening,
                 qpVisible, qpDisposed, qpBusy, qpItems, qpValue,
                 handled, picked, panels>>
parseVars   == <<text, parsed>>
renderVars  == <<raw, rendered>>
vars        == <<sessionVars, parseVars, renderVars>>

Unset == <<"(unset)">>

Undefined == <<"(undefined)">>

LoadingRow == [label |-> <<"Loading...">>,
               description |-> <<"Fetching documentation">>,
               detail |-> <<"N/A">>]

FailureRow(err) == [label |-> <<"Failed to fetch api data">>,
                    description |-> <<"Check network / urls">>,
                    detail |-> err]

EmptyRow == [label |-> <<"No functions found">>,
             description |-> <<"Api docs are empty">>,
             detail |-> Undefined]

NoMatchesRow == [label |-> <<"no matches">>,
                 description |-> <<"try different terms">>,
                 detail |-> Undefined]

\* rows.slice(0, 200).map(...)
toItems(rows) ==
    [k \in 1..(IF Len(rows) < DisplayLimit THEN Len(rows) ELSE DisplayLimit)
        |-> [label |-> rows[k].name,
             description |-> rows[k].signature,
             detail |-> Undefined]]

Reverse(s) == [k \in 1..Len(s) |-> s[Len(s) + 1 - k]]

WithName(list, name) == SelectSeq(list, LAMBDA r : r.name = name)

\* fuse.search(value).map((r) => r.item): the ranking is the library's; any
\* of these selections of the indexed list is a possible answer
FuseResults(list) ==
    {<<>>, Reverse(list)}
    \cup {WithName(list, list[k].name) : k \in {1} \cap DOMAIN list}

\* apiData.find((r) => r.name === picked.label)
Find(list, label) ==
    IF \E k \in 1..Len(list) : list[k].name = label
    THEN <<list[CHOOSE k \in 1..Len(list) :
                    /\ list[k].name = label
                    /\ \A j \in 1..(k - 1) : list[j].name # label]>>
    ELSE <<>>

----------------------------------------------------------------------------
(* fuzzySearch, step by step.                                              *)

NoFetch == [status |-> "none", data |-> Unset]

IdleParse ==
    /\ text = <<>>
    /\ parsed = [done |-> FALSE, entries |-> <<>>, matches |-> <<>>]

IdleRender ==
    /\ raw = <<>>
    /\ rendered = [done |-> FALSE, html |-> <<>>]

NotHandled == [branch |-> "none", hits |-> 0]

\* before the command is invoked
IdleSession ==
    /\ pc = "idle"
    /\ fetch = [u \in Urls |-> NoFetch]
    /\ responses = [u \in Urls |-> Unset]
    /\ outcome = "none"
    /\ apiData = <<>>
    /\ fuse = "none"
    /\ listening = FALSE
    /\ qpVisible = FALSE /\ qpDisposed = FALSE /\ qpBusy = FALSE
    /\ qpItems = <<>> /\ qpValue = <<>>
    /\ handled = NotHandled
    /\ picked = <<>>
    /\ panels = <<>>

Init == IdleSession /\ IdleParse /\ IdleRender

\* the command runs to its first await: the QuickPick is created and shown
Invoke ==
    /\ pc = "idle"
    /\ pc' = "import"
    /\ qpBusy' = TRUE
    /\ qpItems' = <<LoadingRow>>
    /\ qpVisible' = TRUE
    /\ UNCHANGED <<fetch, responses, outcome, apiData, fuse, listening,
                   qpDisposed, qpValue, handled, picked,
                   panels>>
    /\ UNCHANGED <<parseVars, renderVars>>

\* the import of fuse.js resolves: GITHUB_URLS.map((url) => axios.get(url))
\* starts every request, and the function awaits Promise.all
ImportResolved ==
    /\ pc = "import"
    /\ pc' = "fetch"
    /\ fetch' = [u \in Urls |-> [status |-> "pending", data |-> Unset]]
    /\ UNCHANGED <<responses, outcome, apiData, fuse, listening, qpVisible,
                   qpDisposed, qpBusy, qpItems, qpValue, handled, picked,
                   panels>>
    /\ UNCHANGED <<parseVars, renderVars>>

\* Promise.all, had it kept the values in the order of completion
StoreInCompletionOrder(values, i, body) ==
    [values EXCEPT ![Min({u \in Urls : values[u] = Unset})] = body]

\* Promise.all keeps the value of request i at index i
StoreResponse(values, i, body) == [values EXCEPT ![i] = body]

\* responses.map((r) => r.data as string)
TextsOf(values) == [u \in Urls |-> values[u]]

\* the catch block, had it left the items as they were
CatchKeepsDisplay(err) == [busy |-> FALSE, items |-> qpItems]

\* the catch block
CatchDisplay(err) == [busy |-> FALSE, items |-> <<FailureRow(err)>>]

\* the rest of fuzzySearch once Promise.all has fulfilled with values
Loaded(values) ==
    LET data == parseApiDocumentation(TextsOf(values))
    IN  /\ apiData' = data
        /\ qpBusy' = FALSE
        /\ pc' = "returned"
        /\ IF Len(data) = 0
           THEN /\ qpItems' = <<EmptyRow>>
                /\ outcome' = "empty"
                /\ UNCHANGED <<fuse, listening>>
           ELSE /\ fuse' = "built"
                /\ qpItems' = toItems(data)
                /\ listening' = TRUE
                /\ outcome' = "ready"

\* the request of URL i succeeds with body
FetchFulfil(i, body) ==
    /\ fetch[i].status = "pending"
    /\ fetch' = [fetch EXCEPT ![i] = [status |-> "ok", data |-> body]]
    /\ IF pc = "fetch"
       THEN /\ responses' = StoreResponse(responses, i, body)
            /\ IF \A u \in Urls : fetch'[u].status = "ok"
               THEN Loaded(responses')
               ELSE UNCHANGED <<pc, outcome, apiData, fuse, listening,
                                qpBusy, qpItems>>
       ELSE UNCHANGED <<pc, responses, outcome, apiData, fuse, listening,
                        qpBusy, qpItems>>
    /\ UNCHANGED <<qpVisible, qpDisposed, qpValue, handled, picked,
                   panels>>
    /\ UNCHANGED <<parseVars, renderVars>>

\* the request of URL i fails with err: Promise.all rejects with the first
\* failure, and the catch block runs
FetchReject(i, err) ==
    /\ fetch[i].status = "pending"
    /\ fetch' = [fetch EXCEPT ![i] = [status |-> "failed", data |-> err]]
    /\ IF pc = "fetch"
       THEN /\ qpBusy' = CatchDisplay(err).busy
            /\ qpItems' = CatchDisplay(err).items
            /\ outcome' = "failed"
            /\ pc' = "returned"
       ELSE UNCHANGED <<pc, outcome, qpBusy, qpItems>>
    /\ UNCHANGED <<responses, apiData, fuse, listening, qpVisible,
                   qpDisposed, qpValue, handled, picked,
                   panels>>
    /\ UNCHANGED <<parseVars, renderVars>>

\* the guard, had it tested the query as typed
SearchesUntrimmed(value) == value # <<>>

\* the guard of the value handler: !value.trim() returns early
Searches(value) == Trim(value) # <<>>

\* the display of a search, had it no placeholder
SearchItemsAsTheyAre(results) == toItems(results)

\* results.length ? toItems(results) : [{ label: "no matches", ... }]
SearchItems(results) ==
    IF Len(results) # 0 THEN toItems(results) ELSE <<NoMatchesRow>>

\* the user edits the filter text; the onDidChangeValue handler runs if it
\* is registered, results being what fuse.search(value) answers
ChangeValue(value) ==
    /\ qpVisible
    /\ value # qpValue
    /\ qpValue' = value
    /\ IF ~listening
       THEN UNCHANGED <<qpItems, handled>>
       ELSE IF ~Searches(value)
       THEN /\ qpItems' = toItems(apiData)
            /\ handled' = [branch |-> "reset", hits |-> 0]
       ELSE \E results \in FuseResults(apiData) :
                /\ qpItems' = SearchItems(results)
                /\ handled' = [branch |-> "search", hits |-> Len(results)]
    /\ UNCHANGED <<pc, fetch, responses, outcome, apiData, fuse, listening,
                   qpVisible, qpDisposed, qpBusy, picked, panels>>
    /\ UNCHANGED <<parseVars, renderVars>>

\* the onDidChangeSelection handler's panel, if it opens one
SelectionPanels(sel) ==
    LET chosen == Find(apiData, sel[1].label)
    IN  IF chosen # <<>> THEN <<showFunctionDetails(chosen[1])>> ELSE <<>>

\* the selection changes to sel: no row, or one of the displayed rows
ChangeSelection(sel) ==
    /\ qpVisible
    /\ IF listening /\ sel # <<>>
       THEN /\ picked' = sel
            /\ panels' = panels \o SelectionPanels(sel)
            /\ qpVisible' = FALSE
            /\ qpDisposed' = TRUE
       ELSE UNCHANGED <<picked, panels, qpVisible, qpDisposed>>
    /\ UNCHANGED <<pc, fetch, responses, outcome, apiData, fuse, listening,
                   qpBusy, qpItems, qpValue, handled>>
    /\ UNCHANGED <<parseVars, renderVars>>

\* the QuickPick is hidden: Escape, loss of focus, or another quick input
\* shown (the command invoked again); onDidHide disposes, where registered
Hide ==
    /\ qpVisible
    /\ qpVisible' = FALSE
    /\ qpDisposed' = listening
    /\ UNCHANGED <<pc, fetch, responses, outcome, apiData, fuse, listening,
                   qpBusy, qpItems, qpValue, handled, picked,
                   panels>>
    /\ UNCHANGED <<parseVars, renderVars>>

Selections == {<<>>} \cup {<<qpItems[k]>> : k \in DOMAIN qpItems}

Next ==
    \/ Invoke
    \/ ImportResolved
    \/ \E i \in Urls, body \in Docs : FetchFulfil(i, body)
    \/ \E i \in Urls, err \in Errors : FetchReject(i, err)
    \/ \E value \in Queries : ChangeValue(value)
    \/ \E sel \in Selections : ChangeSelection(sel)
    \/ Hide

Spec == Init /\ [][Next]_vars

----------------------------------------------------------------------------
(* The extractor on its own: parseApiDocumentation applied to texts put    *)
(* together from fragments of declaration files.                           *)

\* the fragments one text is put together from
MaxPieces == 4

Comment == <<OPEN, SP, "doc", SP, CLOSE>>

\* a doc comment that speaks of the keywords
CommentKw == <<OPEN, SP, "native", SP, "w", SP, "takes", SP, "p", SP,
               "returns", SP, "q", SP, CLOSE>>

DeclF == <<NL, "native", SP, "F", SP, "takes", SP, "integer", SP, "a", SP,
           "returns", SP, "boolean">>

\* an absent parameter list
DeclG == <<NL, "native", SP, "G", SP, "takes", SP, SP, "returns", SP,
           "nothing">>

\* a declaration the pattern does not take: `constant native`
DeclConst == <<NL, "constant", SP, "native", SP, "G", SP, "takes", SP,
               "nothing", SP, "returns", SP, "a">>

Pieces == {Comment, CommentKw, DeclF, DeclG, DeclConst, <<NL>>, <<SP>>,
           <<"b">>}

RECURSIVE Concat(_)
Concat(ps) == IF Len(ps) = 0 THEN <<>> ELSE ps[1] \o Concat(Tail(ps))

\* the pieces as one file (cut = 0) or as two files, cut after piece cut
FilesOf(ps, cut) ==
    IF cut = 0 THEN <<Concat(ps)>>
    ELSE <<Concat(SubSeq(ps, 1, cut)), Concat(SubSeq(ps, cut + 1, Len(ps)))>>

InitParse ==
    /\ \E n \in 0..MaxPieces : \E ps \in [1..n -> Pieces] :
          \E cut \in 0..n : text = FilesOf(ps, cut)
    /\ parsed = [done |-> FALSE, entries |-> <<>>, matches |-> <<>>]
    /\ IdleSession /\ IdleRender

\* parseApiDocumentation(texts); the matched spans are kept beside the
\* entries made from them
Parse ==
    /\ ~parsed.done
    /\ parsed' = [done |-> TRUE,
                  entries |-> parseApiDocumentation(text),
                  matches |-> Matches(Join(text))]
    /\ UNCHANGED <<text, sessionVars, renderVars>>

NextParse == Parse

SpecParse == InitParse /\ [][NextParse]_vars

----------------------------------------------------------------------------
(* The description display on its own: highlightedDescription applied to   *)
(* the descriptions the extractor can produce.                             *)

\* the lines of a doc comment
MaxLines == 3

CommentLines == {<<OPEN>>, <<CLOSE>>, <<OPEN, SP, "doc", SP, CLOSE>>,
                 <<OPEN, SP>>, <<SP, "*", SP, AT, "doc", SP>>, <<SP, CLOSE>>,
                 <<CLOSE, SP, "doc">>, <<OPEN, SP, "doc">>, <<"doc">>}

DeclLine == <<"native", SP, "F", SP, "takes", SP, "nothing", SP, "returns",
              SP, "nothing">>

\* d is what the extractor gives as the description of an entry
IsDescription(d) ==
    LET es == parseApiDocumentation(<<d>>)
    IN  Len(es) = 1 /\ es[1].description = d

InitRender ==
    /\ \E n \in 1..MaxLines : \E ls \in [1..n -> CommentLines] :
          /\ raw = Join(ls \o <<DeclLine>>)
          /\ IsDescription(raw)
    /\ rendered = [done |-> FALSE, html |-> <<>>]
    /\ IdleSession /\ IdleParse

\* showFunctionDetails on an entry with this description
Render ==
    /\ ~rendered.done
    /\ rendered' = [done |-> TRUE, html |-> highlightedDescription(raw)]
    /\ UNCHANGED <<raw, sessionVars, parseVars>>

NextRender == Render

SpecRender == InitRender /\ [][NextRender]_vars

----------------------------------------------------------------------------
(* The claims.                                                             *)

Dismissed == pc # "idle" /\ ~qpVisible

\* C1: once the QuickPick has been hidden while the session is still
\* loading, no later step changes its items or its busy flag, however the
\* fetch settles.
C1_NoUpdateAfterDismissal ==
    [][(pc \in {"import", "fetch"} /\ ~qpVisible)
          => (qpItems' = qpItems /\ qpBusy' = qpBusy)]_vars

AnyFailed == \E u \in Urls : fetch[u].status = "failed"

\* C2: as soon as one request has failed, whatever the others do, fuzzySearch
\* has returned (no retry), the display is exactly one row "Failed to fetch
\* api data" whose detail is the error of a failed request, no entry is
\* held or displayed, no index is built and no handler is registered, so
\* the display stays through every later event.
C2_FetchFailure ==
    AnyFailed =>
        /\ pc = "returned" /\ outcome = "failed"
        /\ ~qpBusy
        /\ \E u \in Urls :
              /\ fetch[u].status = "failed"
              /\ qpItems = <<[label |-> <<"Failed to fetch api data">>,
                              description |-> <<"Check network / urls">>,
                              detail |-> fetch[u].data]>>
        /\ apiData = <<>> /\ fuse = "none" /\ ~listening
        /\ panels = <<>>

\* a failure was displayed although another request succeeded, and the
\* user has typed since the QuickPick was shown
C2_Witness ==
    /\ AnyFailed
    /\ \E u \in Urls : fetch[u].status = "ok"
    /\ \A u \in Urls : fetch[u].status # "pending"
    /\ qpVisible /\ Trim(qpValue) # <<>>

\* the rows of the first DisplayLimit entries, in extraction order
FirstRows ==
    [k \in 1..(IF Len(apiData) < DisplayLimit THEN Len(apiData)
               ELSE DisplayLimit)
        |-> [label |-> apiData[k].name,
             description |-> apiData[k].signature,
             detail |-> Undefined]]

\* C3: in a session whose extraction was not empty, whenever the query is
\* empty after trimming, the rows displayed are those of the first 200
\* entries in extraction order.
C3_EmptyQueryShowsAll ==
    (outcome = "ready" /\ Trim(qpValue) = <<>>) => qpItems = FirstRows

\* the value handler has reset the display to a truncated list on a query
\* of blanks
C3_Witness ==
    /\ outcome = "ready"
    /\ handled.branch = "reset"
    /\ qpValue = <<SP>>
    /\ Len(apiData) > DisplayLimit
    /\ Len(qpItems) = DisplayLimit

\* C4: in a ready session the entries and the index never change; a query
\* that is not blank and that the index answers with nothing displays
\* exactly the row "no matches"; and from that row a blank query brings the
\* full list back.
C4_NoMatches ==
    [][outcome = "ready" =>
          /\ apiData' = apiData /\ fuse' = fuse
          /\ (qpValue' # qpValue /\ handled'.branch = "search"
                /\ handled'.hits = 0)
             => qpItems' = <<NoMatchesRow>>
          /\ (qpItems = <<NoMatchesRow>> /\ qpValue' # qpValue
                /\ Trim(qpValue') = <<>>)
             => qpItems' = FirstRows]_vars

\* a search without result is displayed
C4_Witness ==
    /\ outcome = "ready"
    /\ handled = [branch |-> "search", hits |-> 0]
    /\ Trim(qpValue) # <<>>
    /\ qpItems = <<NoMatchesRow>>
    /\ Len(apiData) > 0

\* C5: after the selection of an entry row, exactly one panel has been
\* opened, it shows the entry of that row (its name and its signature),
\* and the QuickPick is closed.
C5_SelectedEntryRendered ==
    (picked # <<>> /\ picked[1] # NoMatchesRow) =>
        /\ Len(panels) = 1
        /\ panels[1].title = picked[1].label
        /\ panels[1].code = highlightedSignature(picked[1].description)
        /\ ~qpVisible

\* C6: a QuickPick that has been hidden, in whatever state of the session,
\* has been disposed.
C6_DismissalDisposes == Dismissed => qpDisposed

Settled(u) == fetch[u].status \in {"ok", "failed"}

\* every request is started at the same step
StartedTogether ==
    \A u, v \in Urls : (fetch[u].status = "none") <=> (fetch[v].status = "none")

\* when all succeed the values are in URL order, and so are the combined
\* text and the entries
UrlOrder ==
    outcome \in {"ready", "empty"} =>
        /\ \A u \in Urls : fetch[u].status = "ok"
        /\ responses = [u \in Urls |-> fetch[u].data]
        /\ apiData = parseApiDocumentation([u \in Urls |-> fetch[u].data])

\* no body is parsed before every request has settled
NothingConsumedEarly ==
    (\E u \in Urls : ~Settled(u)) => (apiData = <<>> /\ fuse = "none")

\* C7 as stated: fuzzySearch goes on only when every request has settled.
C7_WaitsForAll ==
    /\ StartedTogether
    /\ pc = "returned" => \A u \in Urls : Settled(u)
    /\ UrlOrder
    /\ NothingConsumedEarly

\* C7, amended: fuzzySearch goes on when every request has succeeded or as
\* soon as one has failed; the requests are started together, the values of
\* a full success are in URL order under every completion order, and no
\* body is consumed before all requests have settled.
C7_WaitsForAllOrFirstFailure ==
    /\ StartedTogether
    /\ pc = "returned" =>
          \/ \A u \in Urls : fetch[u].status = "ok"
          \/ \E u \in Urls : fetch[u].status = "failed"
    /\ pc = "fetch" =>
          /\ \A u \in Urls : fetch[u].status \in {"pending", "ok"}
          /\ \E u \in Urls : fetch[u].status = "pending"
    /\ UrlOrder
    /\ NothingConsumedEarly

\* three different bodies have been collected and parsed
C7_Witness ==
    /\ outcome = "ready"
    /\ responses = <<DocBig, DocNone, DocDup>>
    /\ Len(apiData) = BigBlocks + 3

RECURSIVE FirstClose(_, _)
\* the first comment closer from position c on, 0 when there is none
FirstClose(s, c) ==
    IF c > Len(s) THEN 0
    ELSE IF s[c] = CLOSE THEN c
    ELSE FirstClose(s, c + 1)

RECURSIVE BlocksFrom(_, _)
\* the well-formed blocks of s from position i on: a comment, from its
\* opener to the first closer after it, that a native declaration follows
BlocksFrom(s, i) ==
    IF i > Len(s) THEN <<>>
    ELSE IF s[i] # OPEN THEN BlocksFrom(s, i + 1)
    ELSE LET c == FirstClose(s, i + 1)
             m == DeclMatch(s, i, c)
         IN  IF c = 0 THEN <<>>
             ELSE IF m.end = 0 THEN BlocksFrom(s, c + 1)
             ELSE <<SubSeq(s, i, m.end - 1)>> \o BlocksFrom(s, m.end)

\* C8: the descriptions of the entries are the well-formed blocks of the
\* combined text, one entry per block, in text order, each from its own
\* comment opener and with its comment ending at the first closer.
C8_OneEntryPerBlock ==
    parsed.done =>
        [k \in 1..Len(parsed.entries) |-> parsed.entries[k].description]
            = BlocksFrom(Join(text), 1)

\* C9: every entry has the name the declaration declares, and the signature
\* made of that declaration's own name, parameter list (`nothing` when it
\* is absent) and return type.
C9_DeclaredNameAndSignature ==
    parsed.done =>
        \A k \in 1..Len(parsed.entries) :
            LET s    == Join(text)
                m    == parsed.matches[k]
                name == SubSeq(s, m.nameFrom, m.nameTo - 1)
                pars == Trim(SubSeq(s, m.parFrom, m.parTo - 1))
                ret  == SubSeq(s, m.retFrom, m.end - 1)
            IN  /\ parsed.entries[k].name = name
                /\ parsed.entries[k].signature =
                      name \o <<"(">>
                      \o (IF pars = <<>> THEN <<"nothing">> ELSE pars)
                      \o <<"): ">> \o ret

\* a line that is a comment delimiter and nothing else
IsDelimiter(line) == line = <<OPEN>> \/ line = <<CLOSE>>

\* C10: the description displayed is made of every line of the raw block,
\* trailing blanks stripped, that is not exactly a comment delimiter, in
\* the original order.
C10_OnlyDelimiterLinesDropped ==
    rendered.done =>
        LET lines    == Split(raw, NL)
            stripped == [k \in 1..Len(lines) |-> TrimRight(lines[k])]
            kept     == SelectSeq(stripped, LAMBDA l : ~IsDelimiter(l))
        IN  rendered.html = Join([k \in 1..Len(kept) |-> Annotate(kept[k])])

====
